---- MODULE Spec2Model ----
(***************************************************************************)
(* Model of the two corpus transformers of the repository:                 *)
(*   rule_based_transformations.py        (specification Spec)             *)
(*   vocabulary_based_transformations_v2.py (specification SpecVocab)      *)
(*                                                                         *)
(* A Python str is a sequence of one-character strings.  An accented       *)
(* character is written as its base letter followed by the accent mark:    *)
(* "a-grave" is a-grave, "e-acute" is e-acute, "u-circ" is u-circumflex, "i-uml" is         *)
(* i-diaeresis; "rsquo" and "lsquo" are the curly quotes.                  *)
(* A Python dict is a sequence of [key, val] records in insertion order.   *)
(* The external tokeniser is not modelled: the text field of a corpus      *)
(* line is given by the token sequence the tokeniser returns for it.       *)
(***************************************************************************)
EXTENDS Integers, Sequences, FiniteSets, TLC

VARIABLES
    pc,                 \* position of the program
    fault,              \* the unhandled exception that ended the run, or "none"
    dictionary_file,    \* create_dictionary: the file at dictionary_file_path
    f,                  \* number of lines of the open table file read so far
    dictionary,         \* create_dictionary: target link -> set of links
    linked_dict,        \* target link -> pattern (the alternatives, in order)
    i,                  \* process_corpus: enumerate(f, 1) counter
    line,               \* process_corpus: the corpus line being processed
    tokens,             \* process_corpus: tokens of the line
    t,                  \* number of tokens of the line taken so far
    modified_token,     \* rule-based: the token under substitution
    r,                  \* rule-based: number of linked_dict entries tried
    linked_tokens,      \* rule-based: substituted tokens of the line
    unaccented_tokens,  \* [bound, val]: the name may not be bound yet
    csv,                \* rows written to the output file, header first
    language,           \* vocabulary-based: the -l argument
    vocabulary_file,    \* create_vocabulary: the file at vocabulary_file_path
    columns,            \* create_vocabulary: columns of the lexicon line
    alsatian_words,     \* create_vocabulary: columns[2].split(';')
    translations_tab,   \* create_vocabulary: translations.split(';')
    w,                  \* create_vocabulary: number of alsatian_words stored
    aw,                 \* create_vocabulary: the alsatian word stored last
    trad,               \* create_vocabulary: the translation stored last
    vocab_language,     \* [none, tab]: None, or the vocabulary dict
    translation         \* vocabulary-based: translate_token of each token

vars == <<pc, fault, dictionary_file, f, dictionary, linked_dict, i, line,
          tokens, t, modified_token, r, linked_tokens, unaccented_tokens, csv,
          language, vocabulary_file, columns, alsatian_words, translations_tab,
          w, aw, trad, vocab_language, translation>>

ruleVars == <<dictionary_file, dictionary, linked_dict, modified_token, r,
              linked_tokens>>

vocabVars == <<language, vocabulary_file, columns, alsatian_words,
               translations_tab, w, aw, trad, vocab_language, translation>>

(***************************************************************************)
(* Bounds of the model.                                                    *)
(***************************************************************************)
MaxRules == 3       \* lines of a rule file
MaxLines == 3       \* lines of a corpus
MaxVocab == 2       \* lines of a lexicon file

(***************************************************************************)
(* Strings.                                                                *)
(***************************************************************************)
Min(S) == CHOOSE x \in S : \A y \in S : x <= y

SeqsUpTo(S, n) == UNION {[1..k -> S] : k \in 0..n}

Range(s) == {s[k] : k \in 1..Len(s)}

\* s[p .. p+Len(x)-1] = x
OccursAt(x, s, p) ==
    /\ p >= 1
    /\ p + Len(x) - 1 <= Len(s)
    /\ \A k \in 1..Len(x) : s[p + k - 1] = x[k]

\* sep.join(parts)
RECURSIVE Join(_, _)
Join(parts, sep) ==
    IF Len(parts) = 0 THEN <<>>
    ELSE IF Len(parts) = 1 THEN parts[1]
    ELSE parts[1] \o sep \o Join(Tail(parts), sep)

\* s.replace(old, new), old not empty: the occurrences of old are replaced
\* left to right, without overlap.
RECURSIVE str_replace(_, _, _)
str_replace(s, old, new) ==
    IF Len(s) < Len(old) THEN s
    ELSE IF OccursAt(old, s, 1)
         THEN new \o str_replace(SubSeq(s, Len(old) + 1, Len(s)), old, new)
         ELSE <<Head(s)>> \o str_replace(Tail(s), old, new)

\* re.sub(r'[cls]', to, form)
re_sub(cls, to, form) ==
    [k \in 1..Len(form) |-> IF form[k] \in cls THEN to ELSE form[k]]

\* The character classes of normalize_accents and their replacements, in
\* the order of the re.sub calls.
AccentClasses ==
    << [cls |-> {"a-grave", "a-acute", "a-circ"},        to |-> "a"],
       [cls |-> {"e-grave", "e-circ"},              to |-> "e"],
       [cls |-> {"i-grave", "i-acute", "i-circ", "i-uml"},  to |-> "i"],
       [cls |-> {"o-grave", "o-acute", "o-circ"},        to |-> "o"],
       [cls |-> {"u-grave", "u-acute", "u-circ"},        to |-> "u"],
       [cls |-> {"A-grave", "A-acute", "A-circ"},        to |-> "A"],
       [cls |-> {"E-grave", "E-circ"},              to |-> "E"],
       [cls |-> {"I-grave", "I-acute", "I-circ", "I-uml"},  to |-> "I"],
       [cls |-> {"O-grave", "O-acute", "O-circ"},        to |-> "O"],
       [cls |-> {"U-grave", "U-acute", "U-circ"},        to |-> "U"],
       [cls |-> {"rsquo", "lsquo"},        to |-> "'"] >>

RECURSIVE ApplySubs(_, _)
ApplySubs(subs, form) ==
    IF Len(subs) = 0 THEN form
    ELSE ApplySubs(Tail(subs), re_sub(Head(subs).cls, Head(subs).to, form))

normalize_accents(form) == ApplySubs(AccentClasses, form)

(***************************************************************************)
(* re.search of an alternation (alt1|alt2|...) of literal alternatives:    *)
(* the match starts at the leftmost position where an alternative occurs,  *)
(* and is the first alternative, in pattern order, occurring there.        *)
(***************************************************************************)
NoMatch == [found |-> FALSE, group |-> <<>>]

\* index of the first alternative from j on that occurs at p, 0 if none
RECURSIVE AltAt(_, _, _, _)
AltAt(pattern, s, p, j) ==
    IF j > Len(pattern) THEN 0
    ELSE IF OccursAt(pattern[j], s, p) THEN j
    ELSE AltAt(pattern, s, p, j + 1)

RECURSIVE SearchFrom(_, _, _)
SearchFrom(pattern, s, p) ==
    IF p > Len(s) THEN NoMatch
    ELSE LET j == AltAt(pattern, s, p, 1)
         IN  IF j # 0 THEN [found |-> TRUE, group |-> pattern[j]]
             ELSE SearchFrom(pattern, s, p + 1)

re_search(pattern, s) == SearchFrom(pattern, s, 1)

(***************************************************************************)
(* dict                                                                    *)
(***************************************************************************)
DictKeys(d) == {d[n].key : n \in 1..Len(d)}

DictHas(d, k) == k \in DictKeys(d)

DictGet(d, k) == d[CHOOSE n \in 1..Len(d) : d[n].key = k].val

\* d[k] = v: an existing key keeps its place, a new key goes last
DictPut(d, k, v) ==
    IF DictHas(d, k)
    THEN [n \in 1..Len(d) |-> IF d[n].key = k THEN [key |-> k, val |-> v] ELSE d[n]]
    ELSE Append(d, [key |-> k, val |-> v])

(***************************************************************************)
(* Inputs of the rule-based program.                                       *)
(***************************************************************************)
\* "only using the links that appeared in at least 10 cases"
MinCases == 10

Links == { <<"u", "u">>, <<"u">> }

Targets == { <<"u">>, <<"o">> }

Counts == { MinCases - 1, MinCases }

\* a line of the rule file: link \t target_link \t nbr_cases
RuleRows == [link : Links, target : Targets, n : Counts]

NoFile == [exists |-> FALSE, rows |-> <<>>]

RuleFiles ==
    {NoFile} \cup {[exists |-> TRUE, rows |-> rs] : rs \in SeqsUpTo(RuleRows, MaxRules)}

\* token sequences the tokeniser returns for the text field of a line
Texts ==
    { <<>>,
      << <<"h", "u", "u", "s">> >>,
      << <<".">> >>,
      << <<"a-grave", "u">>, <<".">> >>,
      << <<"H", "u", "u", "s">>, <<"a-grave", "u">> >> }

\* a corpus line: the number of ';'-separated fields, and the text field
CorpusLines ==
    {[nfields |-> 1, text |-> <<>>]} \cup {[nfields |-> 2, text |-> tx] : tx \in Texts}

NoLine == [nfields |-> 0, text |-> <<>>]

Unbound == [bound |-> FALSE, val |-> <<>>]

Header == <<"ID", "Alsatian_transformed">>

NoVocab == [none |-> FALSE, tab |-> <<>>]

NoColumns == [ltz |-> <<>>, pos |-> "", als |-> <<>>, de |-> <<>>]

\* the variables of the vocabulary-based program, at their initial values
VocabIdle ==
    /\ language = "de"
    /\ vocabulary_file = NoFile
    /\ columns = NoColumns
    /\ alsatian_words = <<>>
    /\ translations_tab = <<>>
    /\ w = 0
    /\ aw = <<>>
    /\ trad = <<>>
    /\ vocab_language = NoVocab
    /\ translation = <<>>

CorpusIdle ==
    /\ i = 0
    /\ line = NoLine
    /\ tokens = <<>>
    /\ t = 0
    /\ unaccented_tokens = Unbound
    /\ csv = <<>>

Init ==
    /\ pc = "create_dictionary"
    /\ fault = "none"
    /\ dictionary_file \in RuleFiles
    /\ f = 0
    /\ dictionary = <<>>
    /\ linked_dict = <<>>
    /\ modified_token = <<>>
    /\ r = 0
    /\ linked_tokens = <<>>
    /\ CorpusIdle
    /\ VocabIdle

(***************************************************************************)
(* create_dictionary                                                       *)
(***************************************************************************)
corpusVars == <<i, line, tokens, t, unaccented_tokens, csv>>

\* open(dictionary_file_path) raises FileNotFoundError, which is caught:
\* the message is printed and the empty linked_dict is returned
DictionaryFileNotFound ==
    /\ pc = "create_dictionary"
    /\ ~dictionary_file.exists
    /\ pc' = "return_dict"
    /\ UNCHANGED <<fault, f, ruleVars, corpusVars, vocabVars>>

OpenDictionaryFile ==
    /\ pc = "create_dictionary"
    /\ dictionary_file.exists
    /\ pc' = "read_rules"
    /\ UNCHANGED <<fault, f, ruleVars, corpusVars, vocabVars>>

\* AddRule with the threshold test written nbr_cases > 10
AddRuleStrict(d, row) ==
    IF row.n > MinCases
    THEN IF DictHas(d, row.target)
         THEN DictPut(d, row.target, DictGet(d, row.target) \cup {row.link})
         ELSE DictPut(d, row.target, {row.link})
    ELSE d

\* AddRule with the set of an existing key replaced instead of extended
AddRuleOverwrite(d, row) ==
    IF row.n >= MinCases THEN DictPut(d, row.target, {row.link}) ELSE d

\* the dictionary after one line of the rule file
AddRule(d, row) ==
    IF row.n >= MinCases
    THEN IF DictHas(d, row.target)
         THEN DictPut(d, row.target, DictGet(d, row.target) \cup {row.link})
         ELSE DictPut(d, row.target, {row.link})
    ELSE d

ReadRule ==
    /\ pc = "read_rules"
    /\ f < Len(dictionary_file.rows)
    /\ f' = f + 1
    /\ dictionary' = AddRule(dictionary, dictionary_file.rows[f + 1])
    /\ UNCHANGED <<pc, fault, dictionary_file, linked_dict, modified_token, r,
                   linked_tokens, corpusVars, vocabVars>>

\* the orders in which iterating a set of strings can yield its elements
SetOrders(S) ==
    {p \in [1..Cardinality(S) -> S] : \A a, b \in 1..Cardinality(S) : p[a] = p[b] => a = b}

\* '|'.join(value) for each key: the alternatives come in the iteration
\* order of the set, which string hashing decides
JoinPatterns ==
    /\ pc = "read_rules"
    /\ f = Len(dictionary_file.rows)
    /\ linked_dict' \in
          {ld \in [1..Len(dictionary) -> [key : DictKeys(dictionary),
                                          val : UNION {SetOrders(dictionary[n].val) : n \in 1..Len(dictionary)}]] :
              \A n \in 1..Len(dictionary) :
                  /\ ld[n].key = dictionary[n].key
                  /\ ld[n].val \in SetOrders(dictionary[n].val)}
    /\ pc' = "return_dict"
    /\ UNCHANGED <<fault, f, dictionary_file, dictionary, modified_token, r,
                   linked_tokens, corpusVars, vocabVars>>

\* return linked_dict: the locals of create_dictionary end here, and
\* process_corpus opens the output file and writes the header row
ProcessCorpusRules ==
    /\ pc = "return_dict"
    /\ dictionary_file' = NoFile
    /\ dictionary' = <<>>
    /\ f' = 0
    /\ csv' = <<Header>>
    /\ pc' = "next_line"
    /\ UNCHANGED <<fault, linked_dict, modified_token, r, linked_tokens,
                   i, line, tokens, t, unaccented_tokens, vocabVars>>

(***************************************************************************)
(* process_corpus, rule-based                                              *)
(***************************************************************************)
\* the for loop over the corpus file ends: both files are closed
EndOfCorpus ==
    /\ pc = "next_line"
    /\ pc' = "done"
    /\ UNCHANGED <<fault, f, ruleVars, corpusVars, vocabVars>>

\* the next line of the corpus: columns[1] raises IndexError on a line
\* without ';'
ReadLineRules ==
    /\ pc = "next_line"
    /\ i < MaxLines
    /\ \E ln \in CorpusLines :
          /\ i' = i + 1
          /\ line' = ln
          /\ IF ln.nfields < 2
             THEN /\ fault' = "IndexError"
                  /\ pc' = "fault"
                  /\ UNCHANGED <<tokens, linked_tokens, t>>
             ELSE /\ tokens' = ln.text
                  /\ linked_tokens' = <<>>
                  /\ t' = 0
                  /\ pc' = "next_token"
                  /\ UNCHANGED fault
    /\ UNCHANGED <<f, dictionary_file, dictionary, linked_dict, modified_token, r,
                   unaccented_tokens, csv, vocabVars>>

NextToken ==
    /\ pc = "next_token"
    /\ t < Len(tokens)
    /\ t' = t + 1
    /\ modified_token' = tokens[t + 1]
    /\ r' = 0
    /\ pc' = "rules"
    /\ UNCHANGED <<fault, f, dictionary_file, dictionary, linked_dict, linked_tokens,
                   i, line, tokens, unaccented_tokens, csv, vocabVars>>

\* s.replace(old, new, 1)
RECURSIVE str_replace_first(_, _, _)
str_replace_first(s, old, new) ==
    IF Len(s) < Len(old) THEN s
    ELSE IF OccursAt(old, s, 1)
         THEN new \o SubSeq(s, Len(old) + 1, Len(s))
         ELSE <<Head(s)>> \o str_replace_first(Tail(s), old, new)

\* RuleStep replacing the matched text only where it was matched
RuleStepOnce(entry, tok) ==
    LET match == re_search(entry.val, tok)
    IN  IF match.found THEN str_replace_first(tok, match.group, entry.key) ELSE tok

\* one (key, pattern) of linked_dict on the token: re.search, then
\* str.replace of the matched text by the key
RuleStep(entry, tok) ==
    LET match == re_search(entry.val, tok)
    IN  IF match.found THEN str_replace(tok, match.group, entry.key) ELSE tok

ApplyRule ==
    /\ pc = "rules"
    /\ r < Len(linked_dict)
    /\ r' = r + 1
    /\ modified_token' = RuleStep(linked_dict[r + 1], modified_token)
    /\ UNCHANGED <<pc, fault, f, dictionary_file, dictionary, linked_dict,
                   linked_tokens, corpusVars, vocabVars>>

\* linked_tokens.append(modified_token), and unaccented_tokens is rebuilt
\* from linked_tokens
AppendToken ==
    /\ pc = "rules"
    /\ r = Len(linked_dict)
    /\ linked_tokens' = Append(linked_tokens, modified_token)
    /\ unaccented_tokens' =
          [bound |-> TRUE,
           val |-> [k \in 1..Len(linked_tokens') |-> normalize_accents(linked_tokens'[k])]]
    /\ pc' = "next_token"
    /\ UNCHANGED <<fault, f, dictionary_file, dictionary, linked_dict, modified_token,
                   r, i, line, tokens, t, csv, vocabVars>>

\* if text[-2] == ' ': text = text[:-2] + text[-1]      (Len(text) >= 2)
strip_last_space(text) ==
    IF text[Len(text) - 1] = " "
    THEN SubSeq(text, 1, Len(text) - 2) \o <<text[Len(text)]>>
    ELSE text

\* after the token loop: join, strip, writerow.  unaccented_tokens is only
\* assigned inside the token loop; linked_text[-2] needs two characters.
WriteRowRules ==
    /\ pc = "next_token"
    /\ t = Len(tokens)
    /\ IF ~unaccented_tokens.bound
       THEN /\ fault' = "UnboundLocalError"
            /\ pc' = "fault"
            /\ UNCHANGED csv
       ELSE LET linked_text == Join(unaccented_tokens.val, <<" ">>)
            IN  IF Len(linked_text) < 2
                THEN /\ fault' = "IndexError"
                     /\ pc' = "fault"
                     /\ UNCHANGED csv
                ELSE /\ csv' = Append(csv, <<i, strip_last_space(linked_text)>>)
                     /\ pc' = "next_line"
                     /\ UNCHANGED fault
    /\ UNCHANGED <<f, ruleVars, i, line, tokens, t, unaccented_tokens, vocabVars>>

Next ==
    \/ DictionaryFileNotFound
    \/ OpenDictionaryFile
    \/ ReadRule
    \/ JoinPatterns
    \/ ProcessCorpusRules
    \/ ReadLineRules
    \/ NextToken
    \/ ApplyRule
    \/ AppendToken
    \/ WriteRowRules
    \/ EndOfCorpus

Spec == Init /\ [][Next]_vars

(***************************************************************************)
(* vocabulary_based_transformations_v2.py                                  *)
(***************************************************************************)
\* s.split(sep), sep one character: the pieces between the separators
RECURSIVE SplitFrom(_, _, _)
SplitFrom(s, sep, piece) ==
    IF Len(s) = 0 THEN <<piece>>
    ELSE IF Head(s) = sep THEN <<piece>> \o SplitFrom(Tail(s), sep, <<>>)
    ELSE SplitFrom(Tail(s), sep, Append(piece, Head(s)))

str_split(s, sep) == SplitFrom(s, sep, <<>>)

\* the cased characters of the model's alphabet: upper case, lower case
Cased ==
    { <<"H", "h">>, <<"U", "u">>, <<"S", "s">>, <<"D", "d">>, <<"O", "o">>,
      <<"A", "a">>, <<"A-grave", "a-grave">>, <<"U-circ", "u-circ">> }

\* str.lower()
str_lower(s) ==
    [k \in 1..Len(s) |->
        IF \E c \in Cased : c[1] = s[k]
        THEN (CHOOSE c \in Cased : c[1] = s[k])[2]
        ELSE s[k]]

(***************************************************************************)
(* difflib.SequenceMatcher(None, a, b).ratio(), no junk (autojunk needs    *)
(* 200 elements).  a[alo .. ahi-1] and b[blo .. bhi-1] are the ranges.     *)
(***************************************************************************)
\* the blocks <<i, j, k>> with a[i .. i+k-1] = b[j .. j+k-1] in the ranges
Blocks(a, b, alo, ahi, blo, bhi) ==
    {blk \in (alo..(ahi - 1)) \X (blo..(bhi - 1)) \X (1..(ahi - alo)) :
        /\ blk[1] + blk[3] <= ahi
        /\ blk[2] + blk[3] <= bhi
        /\ \A d \in 0..(blk[3] - 1) : a[blk[1] + d] = b[blk[2] + d]}

\* find_longest_match: the longest block; of those the earliest in a; of
\* those the earliest in b.  <<alo, blo, 0>> when nothing matches.
find_longest_match(a, b, alo, ahi, blo, bhi) ==
    LET bs == Blocks(a, b, alo, ahi, blo, bhi)
    IN  IF bs = {} THEN <<alo, blo, 0>>
        ELSE CHOOSE x \in bs : \A y \in bs :
                \/ x[3] > y[3]
                \/ x[3] = y[3] /\ x[1] < y[1]
                \/ x[3] = y[3] /\ x[1] = y[1] /\ x[2] <= y[2]

\* get_matching_blocks: the sum of the sizes of the matching blocks
RECURSIVE Matches(_, _, _, _, _, _)
Matches(a, b, alo, ahi, blo, bhi) ==
    LET m == find_longest_match(a, b, alo, ahi, blo, bhi)
    IN  IF m[3] = 0 THEN 0
        ELSE m[3]
             + (IF alo < m[1] /\ blo < m[2]
                THEN Matches(a, b, alo, m[1], blo, m[2]) ELSE 0)
             + (IF m[1] + m[3] < ahi /\ m[2] + m[3] < bhi
                THEN Matches(a, b, m[1] + m[3], ahi, m[2] + m[3], bhi) ELSE 0)

\* ratio(): 2.0 * matches / length, 1.0 when both are empty; the float is
\* kept as the fraction <<numerator, denominator>>
ratio(a, b) ==
    IF Len(a) + Len(b) = 0 THEN <<1, 1>>
    ELSE <<2 * Matches(a, b, 1, Len(a) + 1, 1, Len(b) + 1), Len(a) + Len(b)>>

\* x > y for two ratios
RatioGreater(x, y) == x[1] * y[2] > y[1] * x[2]

\* the loop over translations_tab from the k-th candidate on
RECURSIVE MostSimilar(_, _, _, _, _)
MostSimilar(word, tab, k, max_sim_ratio, best) ==
    IF k > Len(tab) THEN best
    ELSE LET sim_ratio == ratio(word, tab[k])
         IN  IF RatioGreater(sim_ratio, max_sim_ratio)
             THEN MostSimilar(word, tab, k + 1, sim_ratio, tab[k])
             ELSE MostSimilar(word, tab, k + 1, max_sim_ratio, best)

\* trad for one alsatian word: max_sim_ratio starts at 0.0 and trad at ''.
\* str.split never returns an empty list, so the else branch is never taken.
ChooseTranslation(word, tab) ==
    IF Len(tab) > 0 THEN MostSimilar(word, tab, 1, <<0, 1>>, <<>>) ELSE <<>>

\* lines of the lexicon: ltz \t pos \t alsatian;alsatian \t de;de
LexiconRows ==
    { [ltz |-> <<"h", "a", "u", "s">>, pos |-> "N",
       als |-> <<"h", "u", "u", "s", ";", "H", "u", "u", "s">>,
       de  |-> <<"h", "a", "u", "s", ";", "h", "u", "s">>],
      [ltz |-> <<"h", "u", ";", "u", "s">>, pos |-> "V",
       als |-> <<"h", "u", "s">>,
       de  |-> <<"d", "o">>],
      [ltz |-> <<"u-circ", "s">>, pos |-> "P",
       als |-> <<"a-grave", "u">>,
       de  |-> <<"a-grave", "s">>] }

VocabularyFiles ==
    {NoFile} \cup {[exists |-> TRUE, rows |-> rs] : rs \in SeqsUpTo(LexiconRows, MaxVocab)}

Languages == {"de", "ltz", "fr"}

RulesIdle ==
    /\ dictionary_file = NoFile
    /\ dictionary = <<>>
    /\ linked_dict = <<>>
    /\ modified_token = <<>>
    /\ r = 0
    /\ linked_tokens = <<>>

InitVocab ==
    /\ pc = "create_vocabulary"
    /\ fault = "none"
    /\ f = 0
    /\ language \in Languages
    /\ vocabulary_file \in VocabularyFiles
    /\ columns = NoColumns
    /\ alsatian_words = <<>>
    /\ translations_tab = <<>>
    /\ w = 0
    /\ aw = <<>>
    /\ trad = <<>>
    /\ vocab_language = NoVocab
    /\ translation = <<>>
    /\ CorpusIdle
    /\ RulesIdle

\* open(vocabulary_file_path): FileNotFoundError is not caught anywhere
OpenVocabularyFile ==
    /\ pc = "create_vocabulary"
    /\ IF vocabulary_file.exists
       THEN pc' = "read_vocab" /\ UNCHANGED fault
       ELSE pc' = "fault" /\ fault' = "FileNotFoundError"
    /\ UNCHANGED <<f, ruleVars, corpusVars, vocabVars>>

\* one line of the lexicon up to translations_tab; an unsupported language
\* prints the message and returns None
ReadVocabularyLine ==
    /\ pc = "read_vocab"
    /\ f < Len(vocabulary_file.rows)
    /\ LET row == vocabulary_file.rows[f + 1]
       IN  /\ f' = f + 1
           /\ columns' = row
           /\ alsatian_words' = str_split(row.als, ";")
           /\ w' = 0
           /\ IF language = "de"
              THEN /\ translations_tab' = str_split(row.de, ";")
                   /\ pc' = "store_words"
                   /\ UNCHANGED vocab_language
              ELSE IF language = "ltz"
              THEN /\ translations_tab' = str_split(row.ltz, ";")
                   /\ pc' = "store_words"
                   /\ UNCHANGED vocab_language
              ELSE /\ vocab_language' = [none |-> TRUE, tab |-> <<>>]
                   /\ pc' = "return_vocab"
                   /\ UNCHANGED translations_tab
    /\ UNCHANGED <<fault, ruleVars, corpusVars, language, vocabulary_file, aw, trad,
                   translation>>

\* for aw in alsatian_words: choose trad, vocab_language[aw] = trad, pos
StoreWord ==
    /\ pc = "store_words"
    /\ w < Len(alsatian_words)
    /\ w' = w + 1
    /\ aw' = alsatian_words[w + 1]
    /\ trad' = ChooseTranslation(aw', translations_tab)
    /\ vocab_language' =
          [vocab_language EXCEPT !.tab = DictPut(@, aw', <<trad', columns.pos>>)]
    /\ UNCHANGED <<pc, fault, f, ruleVars, corpusVars, language, vocabulary_file,
                   columns, alsatian_words, translations_tab, translation>>

NextVocabularyLine ==
    /\ pc = "store_words"
    /\ w = Len(alsatian_words)
    /\ pc' = "read_vocab"
    /\ UNCHANGED <<fault, f, ruleVars, corpusVars, vocabVars>>

EndOfVocabulary ==
    /\ pc = "read_vocab"
    /\ f = Len(vocabulary_file.rows)
    /\ pc' = "return_vocab"
    /\ UNCHANGED <<fault, f, ruleVars, corpusVars, vocabVars>>

\* create_vocabulary returns into the global vocab_language: its locals end
\* here, and process_corpus opens the output file and writes the header row
ProcessCorpusVocab ==
    /\ pc = "return_vocab"
    /\ vocabulary_file' = NoFile
    /\ columns' = NoColumns
    /\ alsatian_words' = <<>>
    /\ translations_tab' = <<>>
    /\ w' = 0
    /\ aw' = <<>>
    /\ trad' = <<>>
    /\ f' = 0
    /\ csv' = <<Header>>
    /\ pc' = "next_line"
    /\ UNCHANGED <<fault, ruleVars, i, line, tokens, t, unaccented_tokens, language,
                   vocab_language, translation>>

(***************************************************************************)
(* process_corpus, vocabulary-based                                        *)
(***************************************************************************)
\* process_corpus(..., column_width=50)
column_width == 50

\* s.rstrip(' ')
RECURSIVE rstrip(_)
rstrip(s) ==
    IF Len(s) > 0 /\ s[Len(s)] = " " THEN rstrip(SubSeq(s, 1, Len(s) - 1)) ELSE s

\* the lines textwrap builds from single-spaced words shorter than width:
\* a word goes on the current line while the line stays within width
RECURSIVE WrapWords(_, _, _)
WrapWords(words, cur, width) ==
    IF Len(words) = 0 THEN (IF Len(cur) = 0 THEN <<>> ELSE <<cur>>)
    ELSE IF Len(cur) = 0 THEN WrapWords(Tail(words), Head(words), width)
    ELSE IF Len(cur) + 1 + Len(Head(words)) <= width
         THEN WrapWords(Tail(words), cur \o <<" ">> \o Head(words), width)
         ELSE <<cur>> \o WrapWords(Tail(words), Head(words), width)

\* textwrap.fill(text, width): a text that fits on one line keeps its
\* inner and leading spaces and loses the trailing ones
textwrap_fill(text, width) ==
    IF Len(text) <= width THEN rstrip(text)
    ELSE Join(WrapWords(str_split(text, " "), <<>>, width), <<"\n">>)

ReadLineVocab ==
    /\ pc = "next_line"
    /\ i < MaxLines
    /\ \E ln \in CorpusLines :
          /\ i' = i + 1
          /\ line' = ln
          /\ IF ln.nfields < 2
             THEN /\ fault' = "IndexError"
                  /\ pc' = "fault"
                  /\ UNCHANGED tokens
             ELSE /\ tokens' = ln.text
                  /\ pc' = "translate"
                  /\ UNCHANGED fault
    /\ UNCHANGED <<f, ruleVars, t, unaccented_tokens, csv, vocabVars>>

\* vocab_language.get(token.lower(), token), on the global vocab_language:
\* the stored tuple, or the token itself
translate_token(token) ==
    IF DictHas(vocab_language.tab, str_lower(token))
    THEN [tuple |-> TRUE, val |-> DictGet(vocab_language.tab, str_lower(token))]
    ELSE [tuple |-> FALSE, val |-> token]

\* translation = [translate_token(token) for token in tokens]: None has no
\* attribute get
TranslateTokens ==
    /\ pc = "translate"
    /\ IF vocab_language.none /\ Len(tokens) > 0
       THEN /\ fault' = "AttributeError"
            /\ pc' = "fault"
            /\ UNCHANGED translation
       ELSE /\ translation' = [k \in 1..Len(tokens) |-> translate_token(tokens[k])]
            /\ pc' = "unaccent"
            /\ UNCHANGED fault
    /\ UNCHANGED <<f, ruleVars, corpusVars, language, vocabulary_file, columns,
                   alsatian_words, translations_tab, w, aw, trad, vocab_language>>

\* UnaccentedToken with the translation normalised as well
UnaccentedTokenNormalized(token, translated_token) ==
    IF translated_token.tuple THEN normalize_accents(translated_token.val[1])
    ELSE normalize_accents(token)

\* one pair of zip(tokens, translation)
UnaccentedToken(token, translated_token) ==
    IF translated_token.tuple THEN translated_token.val[1]
    ELSE normalize_accents(token)

UnaccentTokens ==
    /\ pc = "unaccent"
    /\ unaccented_tokens' =
          [bound |-> TRUE,
           val |-> [k \in 1..Len(tokens) |-> UnaccentedToken(tokens[k], translation[k])]]
    /\ pc' = "write_row"
    /\ UNCHANGED <<fault, f, ruleVars, i, line, tokens, t, csv, vocabVars>>

\* join, strip, wrap, writerow; modified_text[-2] needs two characters
WriteRowVocab ==
    /\ pc = "write_row"
    /\ LET modified_text == Join(unaccented_tokens.val, <<" ">>)
       IN  IF Len(modified_text) < 2
           THEN /\ fault' = "IndexError"
                /\ pc' = "fault"
                /\ UNCHANGED csv
           ELSE /\ csv' = Append(csv, <<i, textwrap_fill(strip_last_space(modified_text),
                                                         column_width)>>)
                /\ pc' = "next_line"
                /\ UNCHANGED fault
    /\ UNCHANGED <<f, ruleVars, i, line, tokens, t, unaccented_tokens, vocabVars>>

NextVocab ==
    \/ OpenVocabularyFile
    \/ ReadVocabularyLine
    \/ StoreWord
    \/ NextVocabularyLine
    \/ EndOfVocabulary
    \/ ProcessCorpusVocab
    \/ ReadLineVocab
    \/ TranslateTokens
    \/ UnaccentTokens
    \/ WriteRowVocab
    \/ EndOfCorpus

SpecVocab == InitVocab /\ [][NextVocab]_vars

(***************************************************************************)
(* Properties.  Spec is the rule-based program, SpecVocab the vocabulary-  *)
(* based one.                                                              *)
(***************************************************************************)
\* the rows with IDs 1..n in increasing order follow the header
RowsNumbered(n) ==
    /\ Len(csv) = n + 1
    /\ csv[1] = Header
    /\ \A k \in 1..n : csv[k + 1][1] = k

\* C1 (Spec): process_corpus runs to completion on every corpus, having
\* written the header and one row per line, the k-th row with ID k.  Stated
\* here for the corpora whose lines all have a text field: no exception ends
\* the run, and at the end the N rows are there.
C1_RunsToCompletionWithNRows ==
    /\ fault # "none" => line.nfields < 2
    /\ pc = "done" => RowsNumbered(i)

\* the source forms of the rows kept for a target, in first-seen order
RECURSIVE FirstSeen(_, _)
FirstSeen(rows, target) ==
    IF Len(rows) = 0 THEN <<>>
    ELSE LET before == FirstSeen(SubSeq(rows, 1, Len(rows) - 1), target)
             row == rows[Len(rows)]
         IN  IF row.target = target /\ row.n >= MinCases /\ row.link \notin Range(before)
             THEN Append(before, row.link)
             ELSE before

\* C2 (Spec): in the table create_dictionary returns, a source form is an
\* alternative of the pattern under a target key exactly when the file has
\* a row (source, target, count) with count >= 10, and a target whose rows
\* all have count < 10 is no key of the table.
C2_TableIffFrequentRule ==
    (pc = "return_dict" /\ dictionary_file.exists) =>
        LET rows == dictionary_file.rows
        IN  /\ \A tg \in Targets : \A s \in Links :
                  (DictHas(linked_dict, tg) /\ s \in Range(DictGet(linked_dict, tg)))
                  <=> \E n \in 1..Len(rows) :
                         rows[n].link = s /\ rows[n].target = tg /\ rows[n].n >= 10
            /\ \A tg \in Targets :
                  (\A n \in 1..Len(rows) : rows[n].target = tg => rows[n].n < 10)
                  => ~DictHas(linked_dict, tg)

\* a file with two source forms kept under one target and a row of another
\* target that is dropped
C2_Witness ==
    /\ pc = "return_dict"
    /\ dictionary_file.exists
    /\ Len(linked_dict) = 1
    /\ Len(linked_dict[1].val) = 2
    /\ \E n \in 1..Len(dictionary_file.rows) :
          /\ dictionary_file.rows[n].n < MinCases
          /\ ~DictHas(linked_dict, dictionary_file.rows[n].target)

\* C9 as stated (Spec): the alternatives of every pattern are in the order
\* in which the distinct source forms were first seen in the file.
C9_FirstSeenOrder ==
    pc = "return_dict" =>
        \A n \in 1..Len(linked_dict) :
            linked_dict[n].val = FirstSeen(dictionary_file.rows, linked_dict[n].key)

\* C9 amended (Spec): the alternatives of every pattern are the distinct
\* source forms kept for its target, each exactly once; their order is not
\* fixed by the file.
C9_AlternativesEachOnce ==
    pc = "return_dict" =>
        \A n \in 1..Len(linked_dict) :
            LET pattern == linked_dict[n].val
                seen == FirstSeen(dictionary_file.rows, linked_dict[n].key)
            IN  /\ Len(pattern) = Len(seen)
                /\ Range(pattern) = Range(seen)
                /\ \A a, b \in 1..Len(pattern) : pattern[a] = pattern[b] => a = b

\* a pattern of two alternatives that are not in first-seen order
C9_Witness ==
    /\ pc = "return_dict"
    /\ \E n \in 1..Len(linked_dict) :
          /\ Len(linked_dict[n].val) = 2
          /\ linked_dict[n].val # FirstSeen(dictionary_file.rows, linked_dict[n].key)

\* the text of the leftmost match of (alt1|alt2|...) in s: the first
\* alternative, in pattern order, at the least position where one occurs
LeftmostMatch(pattern, s) ==
    LET hits == {p \in 1..Len(s) : \E j \in 1..Len(pattern) : OccursAt(pattern[j], s, p)}
    IN  IF hits = {} THEN NoMatch
        ELSE [found |-> TRUE,
              group |-> pattern[Min({j \in 1..Len(pattern) :
                                        OccursAt(pattern[j], s, Min(hits))})]]

\* r_k: the token after the first k entries of the table
RECURSIVE RulesResult(_, _, _)
RulesResult(token, table, k) ==
    IF k = 0 THEN token
    ELSE LET prev == RulesResult(token, table, k - 1)
             m == LeftmostMatch(table[k].val, prev)
         IN  IF m.found THEN str_replace(prev, m.group, table[k].key) ELSE prev

\* the target forms of the kept rows, in first-seen order
RECURSIVE FirstSeenTargets(_)
FirstSeenTargets(rows) ==
    IF Len(rows) = 0 THEN <<>>
    ELSE LET before == FirstSeenTargets(SubSeq(rows, 1, Len(rows) - 1))
             row == rows[Len(rows)]
         IN  IF row.n >= MinCases /\ row.target \notin Range(before)
             THEN Append(before, row.target)
             ELSE before

\* C7 (Spec): the emitted token is normalize_accents(r_k), where r_0 is the
\* token and r_n is r_(n-1) with every occurrence of the text of the
\* leftmost match of the n-th pattern replaced by the n-th target form, or
\* r_(n-1) when the pattern does not match; the entries are visited once
\* each, in insertion order of the target forms, each on the result of the
\* earlier ones.
C7_EmittedTokenIsRulesThenAccents ==
    /\ pc = "return_dict" =>
          [n \in 1..Len(linked_dict) |-> linked_dict[n].key]
              = FirstSeenTargets(dictionary_file.rows)
    /\ pc = "rules" => modified_token = RulesResult(tokens[t], linked_dict, r)
    /\ (pc = "next_token" /\ t > 0) =>
          /\ Len(unaccented_tokens.val) = t
          /\ \A k \in 1..t :
                unaccented_tokens.val[k] =
                    normalize_accents(RulesResult(tokens[k], linked_dict, Len(linked_dict)))

\* "huus" under the rule uu -> u is emitted as "hus"
C7_Witness ==
    /\ pc = "next_token"
    /\ t = 1
    /\ tokens[1] = <<"h", "u", "u", "s">>
    /\ linked_dict = <<[key |-> <<"u">>, val |-> << <<"u", "u">> >>]>>
    /\ unaccented_tokens.val[1] = <<"h", "u", "s">>

\* C10 (Spec): the text of row i is the space-join of the transformed
\* tokens of line i (after the strip of the space before the last
\* character), empty when line i has no tokens, and holds nothing computed
\* for another line.
C10_RowBuiltFromOwnLine ==
    (pc = "next_line" /\ i > 0) =>
        LET own == Join([k \in 1..Len(line.text) |->
                            normalize_accents(RulesResult(line.text[k], linked_dict,
                                                          Len(linked_dict)))], <<" ">>)
        IN  csv[i + 1][2] = (IF Len(own) >= 2 THEN strip_last_space(own) ELSE own)

\* C3 (SpecVocab): the translation stored for an alsatian form is one of the
\* candidates of its row, no candidate has a greater similarity ratio to the
\* form, and every earlier candidate has a smaller one.
C3_StoredTranslationIsBestCandidate ==
    (pc = "store_words" /\ w > 0) =>
        \E k \in 1..Len(translations_tab) :
            /\ translations_tab[k] = trad
            /\ \A j \in 1..Len(translations_tab) :
                  ~RatioGreater(ratio(aw, translations_tab[j]), ratio(aw, trad))
            /\ \A j \in 1..(k - 1) :
                  RatioGreater(ratio(aw, trad), ratio(aw, translations_tab[j]))

\* C4 (SpecVocab): with a language other than 'de' and 'ltz', translating
\* the tokens raises nothing and every emitted token is normalize_accents
\* of the original token.
C4_UnsupportedLanguagePassesThrough ==
    language \notin {"de", "ltz"} =>
        /\ fault # "AttributeError"
        /\ pc = "write_row" =>
              \A k \in 1..Len(tokens) :
                  unaccented_tokens.val[k] = normalize_accents(tokens[k])

\* C5 (SpecVocab): a table source file that does not exist never ends the
\* run: the builder returns an empty table and process_corpus runs.
C5_MissingFileRunContinues ==
    ~(pc = "fault" /\ fault = "FileNotFoundError")

\* C6 (SpecVocab): every key of the table create_vocabulary returns is
\* lowercased, so every alsatian form of the lexicon is found under its
\* lowercased form.
C6_KeysLowercased ==
    (pc = "return_vocab" /\ ~vocab_language.none) =>
        /\ \A key \in DictKeys(vocab_language.tab) : key = str_lower(key)
        /\ \A n \in 1..Len(vocabulary_file.rows) :
              \A form \in Range(str_split(vocabulary_file.rows[n].als, ";")) :
                  DictHas(vocab_language.tab, str_lower(form))

\* C8 (SpecVocab): a token whose lowercased form is a key of the table is
\* emitted as the stored translation, unchanged; any other token is emitted
\* as normalize_accents of the original token.
C8_EmittedTokenIsTranslationOrAccents ==
    pc = "write_row" =>
        /\ Len(unaccented_tokens.val) = Len(tokens)
        /\ \A k \in 1..Len(tokens) :
              unaccented_tokens.val[k] =
                  IF str_lower(tokens[k]) \in DictKeys(vocab_language.tab)
                  THEN DictGet(vocab_language.tab, str_lower(tokens[k]))[1]
                  ELSE normalize_accents(tokens[k])

\* a line with a token found through its lowercased form and a token that
\* is not in the table and loses its accent
C8_Witness ==
    /\ pc = "write_row"
    /\ \E k \in 1..Len(tokens) :
          /\ tokens[k] # str_lower(tokens[k])
          /\ str_lower(tokens[k]) \in DictKeys(vocab_language.tab)
    /\ \E k \in 1..Len(tokens) :
          /\ str_lower(tokens[k]) \notin DictKeys(vocab_language.tab)
          /\ unaccented_tokens.val[k] # tokens[k]

====
